---- MODULE Spec2Model ----
(***************************************************************************)
(* A model of pyfr/backends/cuda/types.py: the CUDAQueue execution queue   *)
(* (enqueue, run, %, runall) with its sequence-point synchronisation, the  *)
(* device buffer CUDAMatrixBase (construction, placement, get, set) and    *)
(* the offsets CUDAView compiles.                                          *)
(*                                                                         *)
(* A single controlling thread drives the queues; `pc` is its position.    *)
(* Every queue carries, next to the fields of CUDAQueue, the state of the  *)
(* two CUDA streams and of the MPI requests it has issued, and a log of    *)
(* the items it has executed and the waits it has performed during the     *)
(* current operation.                                                      *)
(***************************************************************************)
EXTENDS Integers, Sequences, FiniteSets, TLC

\* ------------------------------------------------------------------ bounds
\* Total number of items enqueued, over all queues, in one behaviour.
MaxItems == 5
\* Largest number of items handed to one << or % call.
MaxBatch == 2

\* The queues of the program.
Queues == {1, 2}

\* Kinds of work item: compute kernel, MPI kernel, anything else.
Kinds == {"C", "M", "X"}

VARIABLES
    queue,      \* queue[q]: the CUDAQueue object q (fields below)
    pc,         \* position of the controlling thread
    op,         \* the public operation in progress (or last completed)
    cur,        \* the queue `self` of run / %
    qs,         \* the `queues` argument of runall
    idx,        \* position of the for loops of runall in `queues`
    margs,      \* the `items` argument of << or %; emptied when % enqueues it
    nenq,       \* nenq[q]: number of items enqueued into q so far
    start,      \* start[q]: pending items of q when the operation was called
    passlen,    \* passlen[q]: pending count of q at the last `any(queues)` test
    mat,        \* the CUDAMatrixBase object under study
    devmem,     \* the bytes of device memory, by address
    ret,        \* the last call on the buffer: its argument and its outcome
    view        \* the CUDAView under construction

\* The state of the queues, and the state of the buffer and the view.
qvars == <<queue, pc, op, cur, qs, idx, margs, nenq, start, passlen>>

mvars == <<mat, devmem, ret, view>>

vars == <<queue, pc, op, cur, qs, idx, margs, nenq, start, passlen,
          mat, devmem, ret, view>>

\* ------------------------------------------------------------------- items
\* A work item: its kind and its identity (the order it was enqueued in).
Item(k, i) == [kind |-> k, id |-> i]

\* Python's None, as the value of _last.
None == [kind |-> "none", id |-> 0]

\* An entry of the instrumentation log.
Ev(t, item) == [t |-> t, kind |-> item.kind, id |-> item.id]

Range(s) == {s[i] : i \in 1..Len(s)}

\* The items made from the kinds `ks`, numbered n+1, n+2, ...
Tag(ks, n) == [i \in 1..Len(ks) |-> Item(ks[i], n + i)]

\* The argument lists of << and %.
Batches == UNION {[1..n -> Kinds] : n \in 1..MaxBatch}

\* The argument lists of runall: the queues, each at most once, in any order.
QueueLists == {s \in UNION {[1..n -> Queues] : n \in 1..Cardinality(Queues)} :
                  \A i, j \in 1..Len(s) : i # j => s[i] # s[j]}

\* --------------------------------------------------------- kind predicates
iscomputekernel(item) == item.kind = "C"

ismpikernel(item) == item.kind = "M"

\* ------------------------------------------------- CUDAQueue, as functions
\* CUDAQueue.__init__
NewQueue ==
    [last |-> None, stream_comp |-> {}, stream_copy |-> {}, mpireqs |-> <<>>,
     items |-> <<>>, active |-> {}, log |-> <<>>, exc |-> FALSE]

\* __lshift__ with the new items put in front of the pending ones.
lshift_front(s, its) == [s EXCEPT !.items = its \o @]

\* CUDAQueue.__lshift__
lshift(s, its) == [s EXCEPT !.items = @ \o its]

\* CUDAQueue.__nonzero__
nonzero(s) == s.items # <<>>

\* _exec_item with the item recorded as _last whatever its kind.
exec_item_last_always(s, item) ==
    IF iscomputekernel(item)
    THEN [s EXCEPT !.stream_comp = @ \cup {item.id},
                   !.stream_copy = @ \cup {item.id},
                   !.log = Append(@, Ev("exec", item)),
                   !.last = item]
    ELSE IF ismpikernel(item)
    THEN [s EXCEPT !.mpireqs = Append(@, item.id),
                   !.active = @ \cup {item.id},
                   !.log = Append(@, Ev("exec", item)),
                   !.last = item]
    ELSE [s EXCEPT !.exc = TRUE,
                   !.log = Append(@, Ev("raise", item)),
                   !.last = item]

\* CUDAQueue._exec_item: dispatch on the kind, then record the item as _last.
\* A compute item issues work on both streams; an MPI item appends its request
\* to _mpireqs and makes it active; anything else raises ValueError.
exec_item(s, item) ==
    IF iscomputekernel(item)
    THEN [s EXCEPT !.stream_comp = @ \cup {item.id},
                   !.stream_copy = @ \cup {item.id},
                   !.log = Append(@, Ev("exec", item)),
                   !.last = item]
    ELSE IF ismpikernel(item)
    THEN [s EXCEPT !.mpireqs = Append(@, item.id),
                   !.active = @ \cup {item.id},
                   !.log = Append(@, Ev("exec", item)),
                   !.last = item]
    ELSE [s EXCEPT !.exc = TRUE,
                   !.log = Append(@, Ev("raise", item))]

\* _at_sequence_point without its second disjunct.
at_sequence_point_compute_only(s, item) ==
    iscomputekernel(s.last) /\ ~iscomputekernel(item)

\* _at_sequence_point true whenever _last is defined.
at_sequence_point_always(s, item) == s.last # None

\* CUDAQueue._at_sequence_point
at_sequence_point(s, item) ==
    \/ iscomputekernel(s.last) /\ ~iscomputekernel(item)
    \/ ismpikernel(s.last) /\ ~ismpikernel(item)

\* _wait leaving the requests in _mpireqs.
wait_keep_mpireqs(s) ==
    IF iscomputekernel(s.last)
    THEN [s EXCEPT !.stream_comp = {},
                   !.stream_copy = {},
                   !.log = Append(@, Ev("wait", s.last)),
                   !.last = None]
    ELSE IF ismpikernel(s.last)
    THEN [s EXCEPT !.active = @ \ Range(s.mpireqs),
                   !.log = Append(@, Ev("wait", s.last)),
                   !.last = None]
    ELSE [s EXCEPT !.last = None]

\* _wait without the synchronisation of the copy stream.
wait_no_copy_sync(s) ==
    IF iscomputekernel(s.last)
    THEN [s EXCEPT !.stream_comp = {},
                   !.log = Append(@, Ev("wait", s.last)),
                   !.last = None]
    ELSE IF ismpikernel(s.last)
    THEN [s EXCEPT !.active = @ \ Range(s.mpireqs),
                   !.mpireqs = <<>>,
                   !.log = Append(@, Ev("wait", s.last)),
                   !.last = None]
    ELSE [s EXCEPT !.last = None]

\* CUDAQueue._wait
wait(s) ==
    IF iscomputekernel(s.last)
    THEN [s EXCEPT !.stream_comp = {},
                   !.stream_copy = {},
                   !.log = Append(@, Ev("wait", s.last)),
                   !.last = None]
    ELSE IF ismpikernel(s.last)
    THEN [s EXCEPT !.active = @ \ Range(s.mpireqs),
                   !.mpireqs = <<>>,
                   !.log = Append(@, Ev("wait", s.last)),
                   !.last = None]
    ELSE [s EXCEPT !.last = None]

\* _exec_next with pop() in place of popleft().
exec_next_pop_right(s) ==
    LET item == s.items[Len(s.items)]
        popped == [s EXCEPT !.items = SubSeq(@, 1, Len(@) - 1)]
        waited == IF at_sequence_point(popped, item) THEN wait(popped) ELSE popped
    IN  exec_item(waited, item)

\* CUDAQueue._exec_next
exec_next(s) ==
    LET item == Head(s.items)
        popped == [s EXCEPT !.items = Tail(@)]
        waited == IF at_sequence_point(popped, item) THEN wait(popped) ELSE popped
    IN  exec_item(waited, item)

\* The loop test of _exec_nowait failing at once.
nowait_test_never(s) == FALSE

\* The loop test of CUDAQueue._exec_nowait
nowait_test(s) == nonzero(s) /\ ~at_sequence_point(s, Head(s.items))

\* The loop body of CUDAQueue._exec_nowait
nowait_body(s) == exec_item([s EXCEPT !.items = Tail(@)], Head(s.items))

\* CUDAQueue.run as a function of the queue: the queue it leaves behind (an
\* exception leaves the queue as it was when raised).
RECURSIVE run(_)
run(s) ==
    IF s.exc THEN s
    ELSE IF nonzero(s) THEN run(exec_next(s))
    ELSE wait(s)

\* A queue as it is when an operation is called on it with `its` pending.
AtCall(its) == [NewQueue EXCEPT !.items = its]

\* ----------------------------------------------------------- host arrays
\* The element types of a buffer: backend.fpdtype is one of these.
Dtypes == {"float32", "float64"}

\* np.dtype(dtype).itemsize
Itemsize(dtype) == IF dtype = "float64" THEN 8 ELSE 4

\* The values a host array holds. The odd ones stand for the doubles that
\* single precision cannot hold: a cast to float32 rounds them to the even
\* value below.
Values == 0..3

Representable(dtype, v) == dtype = "float64" \/ v % 2 = 0

\* A host array: its shape and its elements in C order.  NoneAry is Python's
\* None where an array is expected.
NoneAry == [shape |-> <<>>, flat |-> <<>>]

\* Largest number of rows, and of columns, of a two-dimensional ioshape.
MaxNrow == 2
MaxNcol == 3

\* The logical shapes of the buffers that are placed, read and written:
\* two-dimensional ones and small three-dimensional ones.
IoShapes == {<<r, c>> : r \in 1..MaxNrow, c \in 1..MaxNcol} \cup
            {<<a, 2, c>> : a \in 1..MaxNrow, c \in 1..2}

\* Largest number of columns of the buffers that are only constructed.
MaxWide == 16

WideShapes == {<<r, c>> : r \in 1..MaxNrow, c \in 1..MaxWide}

RECURSIVE Size(_)
Size(shape) == IF shape = <<>> THEN 1 ELSE Head(shape) * Size(Tail(shape))

Reverse(s) == [i \in 1..Len(s) |-> s[Len(s) + 1 - i]]

\* The array of a shape whose elements are s, 2s, 3s, ... (among Values).
Ramp(shape, s) ==
    [shape |-> shape,
     flat |-> [e \in 1..Size(shape) |-> (s * e) % Cardinality(Values)]]

\* The arrays a caller passes to a buffer of shape `ioshape`: two of that
\* shape, one of the transposed shape and one of the flattened shape.
ArraysFor(ioshape) ==
    {Ramp(ioshape, 1), Ramp(ioshape, 2), Ramp(Reverse(ioshape), 1),
     Ramp(<<Size(ioshape)>>, 1)}

\* np.asanyarray(ary, dtype=dtype, order='C'): the cast of every element.
asanyarray(ary, dtype) ==
    [ary EXCEPT !.flat = [e \in 1..Len(ary.flat) |->
        IF Representable(dtype, ary.flat[e]) THEN ary.flat[e]
        ELSE ary.flat[e] - 1]]

\* The initial values a caller gives to a buffer of shape `ioshape`: none, an
\* array of that shape, or an array of the transposed shape.
InitvalsFor(ioshape) ==
    {NoneAry, Ramp(ioshape, 1), Ramp(Reverse(ioshape), 1)}

\* backend.compact_shape: the leading extent, and the product of the others.
compact_shape(shape) == <<shape[1], Size(Tail(shape))>>

\* backend.compact_arr: the array reshaped to its compacted shape.
compact_arr(ary) == [ary EXCEPT !.shape = compact_shape(ary.shape)]

\* ndarray.reshape(shape)
reshape(ary, shape) == [ary EXCEPT !.shape = shape]

\* --------------------------------------------------------- bytes, memory
\* A byte is <<v, k>>: byte k of the representation of the value v.  Junk(j)
\* is a byte of no value: what uninitialised storage holds.
Junk(j) == <<Cardinality(Values) + j, 0>>

\* The element that bytes of no value decode to.
Garbage == Cardinality(Values)

\* The bytes of the elements `flat`, itemsize bytes an element.
ToBytes(flat, itemsize) ==
    [b \in 1..(Len(flat) * itemsize) |->
        <<flat[((b - 1) \div itemsize) + 1], (b - 1) % itemsize>>]

\* The elements that the bytes hold.
FromBytes(bytes, itemsize) ==
    [e \in 1..(Len(bytes) \div itemsize) |->
        LET first == bytes[(e - 1) * itemsize + 1]
        IN  IF \A k \in 0..(itemsize - 1) :
                   bytes[(e - 1) * itemsize + 1 + k] = <<first[1], k>>
            THEN first[1] ELSE Garbage]

\* np.empty: a host buffer of n bytes of no value.
empty(n) == [b \in 1..n |-> Junk(0)]

\* Size of the device allocation, in bytes.
MemBytes == 48

\* The addresses the allocation may start at, and the alignments of a backend.
BaseAddrs == {0, 16}

AlignBs == {8, 16}

WideAlignBs == {8, 16, 32}

Max(S) == CHOOSE x \in S : \A y \in S : y <= x

\* The device addresses.
DevAddrs == 0..(Max(BaseAddrs) + MemBytes - 1)

\* Byte i of a host buffer and byte a of device memory; outside them, junk.
HostByte(src, i) == IF i \in 1..Len(src) THEN src[i] ELSE Junk(0)

DevByte(mem, a) == IF a \in DOMAIN mem THEN mem[a] ELSE Junk(0)

\* The last of the rows 0..height-1, `stride` bytes apart from `origin` and
\* `width` bytes wide, that holds position p; -1 if none does.
RowOf(p, origin, stride, width, height) ==
    LET rows == {r \in 0..(height - 1) : p - origin - r * stride \in 0..(width - 1)}
    IN  IF rows = {} THEN 0 - 1 ELSE Max(rows)

\* memcpy2d_htod(dest, src, spitch, dpitch, width, height): `height` rows of
\* `width` bytes, from the host buffer src (rows spitch bytes apart) to device
\* memory at dest (rows dpitch bytes apart).
memcpy2d_htod(mem, dest, src, spitch, dpitch, width, height) ==
    [a \in DOMAIN mem |->
        LET r == RowOf(a, dest, dpitch, width, height)
        IN  IF r < 0 THEN mem[a]
            ELSE HostByte(src, r * spitch + (a - dest - r * dpitch) + 1)]

\* memcpy2d_dtoh(dest, src, spitch, dpitch, width, height): the same from
\* device memory at src to the host buffer dest; the new host buffer.
memcpy2d_dtoh(dest, mem, src, spitch, dpitch, width, height) ==
    [i \in 1..Len(dest) |->
        LET r == RowOf(i - 1, 0, dpitch, width, height)
        IN  IF r < 0 THEN dest[i]
            ELSE DevByte(mem, src + r * spitch + (i - 1 - r * dpitch))]

\* ------------------------------------------------ CUDAMatrixBase, as functions
\* The remainder of C: its sign is the sign of the dividend.
CRem(a, b) ==
    LET abs(x) == IF x < 0 THEN 0 - x ELSE x
    IN  IF a < 0 THEN 0 - (abs(a) % abs(b)) ELSE abs(a) % abs(b)

\* Python's a % b: its sign is the sign of the divisor.
PyMod(a, b) == IF b < 0 THEN 0 - ((0 - a) % (0 - b)) ELSE a % b

\* MatrixBase.pitch: the byte stride between rows.
pitch(m) == m.leaddim * m.itemsize

\* No buffer: the object before its construction.  `attrs` is the set of the
\* instance attributes that exist, of those the methods may find missing.
NoMatrix ==
    [made |-> FALSE, dtype |-> "float32", itemsize |-> 0, alignb |-> 0,
     ioshape |-> <<>>, tags |-> {}, nrow |-> 0, ncol |-> 0, leaddim |-> 0,
     leadsubdim |-> 0, nbytes |-> 0, attrs |-> {}, initval |-> NoneAry,
     basedata |-> 0, data |-> 0, offset |-> 0]

\* The alignment requirement for the leading dimension, in elements.
ldmod(alignb, itemsize, tags) ==
    IF "align" \in tags THEN alignb \div itemsize ELSE 1

\* CUDAMatrixBase.__init__ on a backend of alignment alignb: the new object.
\* backend.malloc notes the request of nbytes bytes; no address exists yet.
CUDAMatrixBase(alignb, dtype, ioshape, initval, tags) ==
    LET itemsize == Itemsize(dtype)
        nrow == compact_shape(ioshape)[1]
        ncol == compact_shape(ioshape)[2]
        leaddim == ncol - PyMod(ncol, 0 - ldmod(alignb, itemsize, tags))
    IN  [made |-> TRUE, dtype |-> dtype, itemsize |-> itemsize,
         alignb |-> alignb, ioshape |-> ioshape, tags |-> tags,
         nrow |-> nrow, ncol |-> ncol, leaddim |-> leaddim,
         leadsubdim |-> ioshape[Len(ioshape)],
         nbytes |-> nrow * leaddim * itemsize,
         attrs |-> {"_initval"}, initval |-> initval,
         basedata |-> 0, data |-> 0, offset |-> 0]

\* The device-to-host copy of get with the host pitch as the device pitch.
get_buf_pitch_ncol(m, mem) ==
    memcpy2d_dtoh(empty(m.nrow * m.ncol * m.itemsize), mem, m.data,
                  m.ncol * m.itemsize, m.ncol * m.itemsize,
                  m.ncol * m.itemsize, m.nrow)

\* CUDAMatrixBase.get, its allocation and its copy: the bytes of the host
\* buffer after memcpy2d_dtoh.
get_buf(m, mem) ==
    memcpy2d_dtoh(empty(m.nrow * m.ncol * m.itemsize), mem, m.data,
                  pitch(m), m.ncol * m.itemsize, m.ncol * m.itemsize, m.nrow)

\* CUDAMatrixBase.get: the exception raised, or the array returned.  Reading
\* self.data of an unplaced buffer raises AttributeError.
get(m, mem) ==
    IF "data" \notin m.attrs
    THEN [exc |-> "AttributeError", val |-> NoneAry]
    ELSE [exc |-> "none",
          val |-> reshape([shape |-> <<m.nrow, m.ncol>>,
                           flat |-> FromBytes(get_buf(m, mem), m.itemsize)],
                          m.ioshape)]

\* set copying rows of pitch bytes.
set_width_pitch(m, mem, ary) ==
    IF ary.shape # m.ioshape
    THEN [exc |-> "ValueError", mem |-> mem]
    ELSE IF "data" \notin m.attrs
    THEN [exc |-> "AttributeError", mem |-> mem]
    ELSE LET nary == compact_arr(asanyarray(ary, m.dtype))
         IN  [exc |-> "none",
              mem |-> memcpy2d_htod(mem, m.data, ToBytes(nary.flat, m.itemsize),
                                    m.ncol * m.itemsize, pitch(m),
                                    pitch(m), m.nrow)]

\* set without its test of the shape.
set_no_shape_test(m, mem, ary) ==
    IF "data" \notin m.attrs
    THEN [exc |-> "AttributeError", mem |-> mem]
    ELSE LET nary == compact_arr(asanyarray(ary, m.dtype))
         IN  [exc |-> "none",
              mem |-> memcpy2d_htod(mem, m.data, ToBytes(nary.flat, m.itemsize),
                                    m.ncol * m.itemsize, pitch(m),
                                    m.ncol * m.itemsize, m.nrow)]

\* CUDAMatrixBase.set: the exception raised, and device memory afterwards.
set(m, mem, ary) ==
    IF ary.shape # m.ioshape
    THEN [exc |-> "ValueError", mem |-> mem]
    ELSE IF "data" \notin m.attrs
    THEN [exc |-> "AttributeError", mem |-> mem]
    ELSE LET nary == compact_arr(asanyarray(ary, m.dtype))
         IN  [exc |-> "none",
              mem |-> memcpy2d_htod(mem, m.data, ToBytes(nary.flat, m.itemsize),
                                    m.ncol * m.itemsize, pitch(m),
                                    m.ncol * m.itemsize, m.nrow)]

\* onalloc taking the offset for the address.
onalloc_data_no_base(m, mem, basedata, offset) ==
    LET placed == [m EXCEPT !.basedata = basedata,
                            !.data = offset,
                            !.offset = offset \div m.itemsize,
                            !.attrs = @ \cup {"basedata", "data", "offset"}]
        discarded == [placed EXCEPT !.attrs = @ \ {"_initval"},
                                   !.initval = NoneAry]
        wr == set(placed, mem, m.initval)
    IN  IF m.initval = NoneAry
        THEN [exc |-> "none", mat |-> discarded, mem |-> mem]
        ELSE IF wr.exc # "none"
        THEN [exc |-> wr.exc, mat |-> placed, mem |-> wr.mem]
        ELSE [exc |-> "none", mat |-> discarded, mem |-> wr.mem]

\* CUDAMatrixBase.onalloc: the exception raised, the object and device memory
\* afterwards.  An exception of set leaves _initval in place.
onalloc(m, mem, basedata, offset) ==
    LET placed == [m EXCEPT !.basedata = basedata,
                            !.data = basedata + offset,
                            !.offset = offset \div m.itemsize,
                            !.attrs = @ \cup {"basedata", "data", "offset"}]
        discarded == [placed EXCEPT !.attrs = @ \ {"_initval"},
                                   !.initval = NoneAry]
        wr == set(placed, mem, m.initval)
    IN  IF m.initval = NoneAry
        THEN [exc |-> "none", mat |-> discarded, mem |-> mem]
        ELSE IF wr.exc # "none"
        THEN [exc |-> wr.exc, mat |-> placed, mem |-> wr.mem]
        ELSE [exc |-> "none", mat |-> discarded, mem |-> wr.mem]

\* CUDAMatrixBase._as_parameter_ and __long__
as_parameter(m) ==
    IF "data" \notin m.attrs
    THEN [exc |-> "AttributeError", addr |-> 0]
    ELSE [exc |-> "none", addr |-> m.data]

\* The outcome of a call on the buffer, as the caller sees it: the method, its
\* array argument, the exception, the array or the address returned, and for
\* onalloc the base address and the byte offset it was given.
Outcome(call, arg, exc, val, addr, base, boff) ==
    [call |-> call, arg |-> arg, exc |-> exc, val |-> val, addr |-> addr,
     base |-> base, boff |-> boff]

NoCall == Outcome("none", NoneAry, "none", NoneAry, 0, 0, 0)

\* ------------------------------------------------------ CUDAView, as functions
\* Largest number of elements of a view.
MaxVlen == 3

\* The placed buffers a view is built over: two buffers of two rows and two
\* columns, aligned or not, placed one after the other in an allocation.
Placed(m, boff) == onalloc(m, [a \in DevAddrs |-> Junk(1)], 0, boff).mat

ViewMats ==
    {LET m1 == CUDAMatrixBase(16, "float32", <<2, 2>>, NoneAry, t1)
         m2 == CUDAMatrixBase(16, "float32", <<2, 2>>, NoneAry, t2)
     IN  <<Placed(m1, 16), Placed(m2, 16 + m1.nbytes)>> :
        t1 \in {{}, {"align"}}, t2 \in {{}, {"align"}}}

\* The elements of a view over the buffers ms: the number of a buffer, and a
\* row and a column of it.
Cells(ms) ==
    {<<i, r, c>> : i \in 1..Len(ms), r \in 0..1, c \in 0..1}

\* View._mats: the buffers that matmap names, each once, in increasing order.
RECURSIVE Ascending(_)
Ascending(S) ==
    IF S = {} THEN <<>>
    ELSE LET x == CHOOSE y \in S : \A z \in S : y <= z
         IN  <<x>> \o Ascending(S \ {x})

mats_of(matmap) == Ascending(Range(matmap))

\* The loop body of CUDAView.__init__ adding to every element of offmap.
offmap_add_all(offmap, matmap, r, m, id) ==
    [i \in 1..Len(offmap) |-> offmap[i] + m.offset + r[i] * m.leaddim]

\* The loop body of CUDAView.__init__ for the buffer m, number id:
\* ix = np.where(matmap == m); offmap[ix] += m.offset + r[ix]*m.leaddim
offmap_add(offmap, matmap, r, m, id) ==
    [i \in 1..Len(offmap) |->
        IF matmap[i] = id THEN offmap[i] + m.offset + r[i] * m.leaddim
        ELSE offmap[i]]

\* No view: before CUDAView.__init__ is called.
NoView ==
    [pc |-> "none", mats |-> <<>>, matmap |-> <<>>, r |-> <<>>, c |-> <<>>,
     stridemap |-> <<>>, todo |-> <<>>, offmap |-> <<>>,
     mapping |-> <<>>, strides |-> <<>>]

\* ------------------------------------------------------------ the program
\* The queues after construction, with nothing enqueued and nothing called.
QInit ==
    /\ queue = [q \in Queues |-> NewQueue]
    /\ pc = "idle"
    /\ op = "none"
    /\ cur = 1
    /\ qs = <<1>>
    /\ idx = 1
    /\ margs = <<>>
    /\ nenq = [q \in Queues |-> 0]
    /\ start = [q \in Queues |-> <<>>]
    /\ passlen = [q \in Queues |-> 0]

\* The program after construction: no buffer and no view exist yet.
Init ==
    /\ QInit
    /\ mat = NoMatrix
    /\ devmem = [a \in DevAddrs |-> Junk(1)]
    /\ ret = NoCall
    /\ view = NoView

\* The number of items enqueued so far, over all queues.
RECURSIVE SumOver(_, _)
SumOver(f, S) == IF S = {} THEN 0
                 ELSE LET x == CHOOSE y \in S : TRUE IN f[x] + SumOver(f, S \ {x})

Total == SumOver(nenq, Queues)

\* Where the thread goes after a step on queue state s: an exception ends the
\* program, otherwise it goes on to `next`.
After(s, next) == IF s.exc THEN "raised" ELSE next

\* The bookkeeping of a call of a public operation, `name`, on queue q (run,
\* <<, %) or on the queues l (runall), with the items ks: the logs start afresh
\* and the pending items are noted.
Called(name, q, l, ks) ==
    /\ pc = "idle"
    /\ op' = name
    /\ cur' = q
    /\ qs' = l
    /\ margs' = ks
    /\ idx' = 1
    /\ start' = [r \in Queues |-> queue[r].items]
    /\ passlen' = [r \in Queues |-> 0]
    /\ UNCHANGED mvars

\* The queues with their logs emptied.
Fresh == [r \in Queues |-> [queue[r] EXCEPT !.log = <<>>]]

\* queue << items
Enqueue(q, ks) ==
    /\ Called("lshift", q, <<q>>, ks)
    /\ Total + Len(ks) <= MaxItems
    /\ queue' = [Fresh EXCEPT ![q] = lshift(@, Tag(ks, nenq[q]))]
    /\ nenq' = [nenq EXCEPT ![q] = @ + Len(ks)]
    /\ pc' = "idle"

\* queue.run() is called
CallRun(q) ==
    /\ Called("run", q, <<q>>, <<>>)
    /\ queue' = Fresh
    /\ pc' = "run"
    /\ UNCHANGED nenq

\* queue % items without its first self.run().
CallMod_no_first_run(q, ks) ==
    /\ Called("mod", q, <<q>>, ks)
    /\ Total + Len(ks) <= MaxItems
    /\ queue' = Fresh
    /\ pc' = "mod"
    /\ UNCHANGED nenq

\* queue % items is called: its first statement is self.run()
CallMod(q, ks) ==
    /\ Called("mod", q, <<q>>, ks)
    /\ Total + Len(ks) <= MaxItems
    /\ queue' = Fresh
    /\ pc' = "run"
    /\ UNCHANGED nenq

\* run: the loop test succeeds, one _exec_next
RunLoop ==
    /\ pc = "run"
    /\ nonzero(queue[cur])
    /\ queue' = [queue EXCEPT ![cur] = exec_next(@)]
    /\ pc' = After(queue'[cur], "run")
    /\ UNCHANGED <<op, cur, qs, idx, margs, nenq, start, passlen>>
    /\ UNCHANGED mvars

\* run without its final _wait.
RunReturn_no_wait ==
    /\ pc = "run"
    /\ ~nonzero(queue[cur])
    /\ pc' = IF op = "mod" /\ margs # <<>> THEN "mod" ELSE "idle"
    /\ UNCHANGED <<queue, op, cur, qs, idx, margs, nenq, start, passlen>>
    /\ UNCHANGED mvars

\* run: the loop test fails, the final _wait, and the return (to the caller
\* of run, or into the second statement of %)
RunReturn ==
    /\ pc = "run"
    /\ ~nonzero(queue[cur])
    /\ queue' = [queue EXCEPT ![cur] = wait(@)]
    /\ pc' = IF op = "mod" /\ margs # <<>> THEN "mod" ELSE "idle"
    /\ UNCHANGED <<op, cur, qs, idx, margs, nenq, start, passlen>>
    /\ UNCHANGED mvars

\* %: self << items, then the second self.run()
ModEnqueue ==
    /\ pc = "mod"
    /\ queue' = [queue EXCEPT ![cur] = lshift(@, Tag(margs, nenq[cur]))]
    /\ nenq' = [nenq EXCEPT ![cur] = @ + Len(margs)]
    /\ margs' = <<>>
    /\ pc' = "run"
    /\ UNCHANGED <<op, cur, qs, idx, start, passlen>>
    /\ UNCHANGED mvars

\* CUDAQueue.runall(queues) is called
CallRunAll(l) ==
    /\ Called("runall", l[1], l, <<>>)
    /\ queue' = Fresh
    /\ pc' = "ra_first"
    /\ UNCHANGED nenq

\* runall, first loop: one iteration of the loop of q._exec_nowait()
FirstNowait ==
    /\ pc = "ra_first"
    /\ nowait_test(queue[qs[idx]])
    /\ queue' = [queue EXCEPT ![qs[idx]] = nowait_body(@)]
    /\ pc' = After(queue'[qs[idx]], "ra_first")
    /\ UNCHANGED <<op, cur, qs, idx, margs, nenq, start, passlen>>
    /\ UNCHANGED mvars

\* The first loop of runall left after its first queue.
FirstNext_break ==
    /\ pc = "ra_first"
    /\ ~nowait_test(queue[qs[idx]])
    /\ idx' = 1
    /\ pc' = "ra_any"
    /\ UNCHANGED <<queue, op, cur, qs, margs, nenq, start, passlen>>
    /\ UNCHANGED mvars

\* runall, first loop: q._exec_nowait() returns; on to the next queue
FirstNext ==
    /\ pc = "ra_first"
    /\ ~nowait_test(queue[qs[idx]])
    /\ IF idx < Len(qs)
       THEN idx' = idx + 1 /\ pc' = "ra_first"
       ELSE idx' = 1 /\ pc' = "ra_any"
    /\ UNCHANGED <<queue, op, cur, qs, margs, nenq, start, passlen>>
    /\ UNCHANGED mvars

\* runall: the test `while any(queues)`
AnyQueues ==
    /\ pc = "ra_any"
    /\ idx' = 1
    /\ passlen' = [q \in Queues |-> Len(queue[q].items)]
    /\ pc' = IF \E i \in 1..Len(qs) : nonzero(queue[qs[i]])
             THEN "ra_for" ELSE "ra_wait"
    /\ UNCHANGED <<queue, op, cur, qs, margs, nenq, start>>
    /\ UNCHANGED mvars

\* runall, main loop: ifilter yields the next non-empty queue, at position j,
\* and q._exec_next() runs
PassExecNext(j) ==
    /\ pc = "ra_for"
    /\ j \in idx..Len(qs)
    /\ nonzero(queue[qs[j]])
    /\ \A i \in idx..(j - 1) : ~nonzero(queue[qs[i]])
    /\ queue' = [queue EXCEPT ![qs[j]] = exec_next(@)]
    /\ idx' = j
    /\ pc' = After(queue'[qs[j]], "ra_nowait")
    /\ UNCHANGED <<op, cur, qs, margs, nenq, start, passlen>>
    /\ UNCHANGED mvars

\* runall, main loop: one iteration of the loop of q._exec_nowait()
PassNowait ==
    /\ pc = "ra_nowait"
    /\ nowait_test(queue[qs[idx]])
    /\ queue' = [queue EXCEPT ![qs[idx]] = nowait_body(@)]
    /\ pc' = After(queue'[qs[idx]], "ra_nowait")
    /\ UNCHANGED <<op, cur, qs, idx, margs, nenq, start, passlen>>
    /\ UNCHANGED mvars

\* runall, main loop: q._exec_nowait() returns; ifilter moves on
PassNext ==
    /\ pc = "ra_nowait"
    /\ ~nowait_test(queue[qs[idx]])
    /\ idx' = idx + 1
    /\ pc' = "ra_for"
    /\ UNCHANGED <<queue, op, cur, qs, margs, nenq, start, passlen>>
    /\ UNCHANGED mvars

\* The main loop of runall with takewhile in place of ifilter: the pass ends
\* at the first empty queue.
PassEnd_takewhile ==
    /\ pc = "ra_for"
    /\ \/ idx > Len(qs)
       \/ idx <= Len(qs) /\ ~nonzero(queue[qs[idx]])
    /\ pc' = "ra_any"
    /\ UNCHANGED <<queue, op, cur, qs, idx, margs, nenq, start, passlen>>
    /\ UNCHANGED mvars

\* runall, main loop: ifilter is exhausted, back to the while test
PassEnd ==
    /\ pc = "ra_for"
    /\ \A i \in idx..Len(qs) : ~nonzero(queue[qs[i]])
    /\ pc' = "ra_any"
    /\ UNCHANGED <<queue, op, cur, qs, idx, margs, nenq, start, passlen>>
    /\ UNCHANGED mvars

\* The last loop of runall waiting on the first queue only.
FinalWait_first_only ==
    /\ pc = "ra_wait"
    /\ queue' = [queue EXCEPT ![qs[idx]] = wait(@)]
    /\ idx' = idx
    /\ pc' = "idle"
    /\ UNCHANGED <<op, cur, qs, margs, nenq, start, passlen>>
    /\ UNCHANGED mvars

\* runall, last loop: q._wait() for each queue, then the return
FinalWait ==
    /\ pc = "ra_wait"
    /\ queue' = [queue EXCEPT ![qs[idx]] = wait(@)]
    /\ IF idx < Len(qs)
       THEN idx' = idx + 1 /\ pc' = "ra_wait"
       ELSE idx' = idx /\ pc' = "idle"
    /\ UNCHANGED <<op, cur, qs, margs, nenq, start, passlen>>
    /\ UNCHANGED mvars

Next ==
    \/ \E q \in Queues, ks \in Batches : Enqueue(q, ks)
    \/ \E q \in Queues : CallRun(q)
    \/ \E q \in Queues, ks \in Batches : CallMod(q, ks)
    \/ RunLoop
    \/ RunReturn
    \/ ModEnqueue
    \/ \E l \in QueueLists : CallRunAll(l)
    \/ FirstNowait
    \/ FirstNext
    \/ AnyQueues
    \/ \E j \in 1..Cardinality(Queues) : PassExecNext(j)
    \/ PassNowait
    \/ PassNext
    \/ PassEnd
    \/ FinalWait

Spec == Init /\ [][Next]_vars

\* runall alone, from its call: the queues are quiescent and hold any pending
\* items, MaxItems at most between them, none executed before.
PendingLists == UNION {[1..n -> Kinds] : n \in 0..MaxItems}

RunAllInit ==
    /\ \E ks \in [Queues -> PendingLists] :
        /\ SumOver([q \in Queues |-> Len(ks[q])], Queues) <= MaxItems
        /\ queue = [q \in Queues |-> AtCall(Tag(ks[q], 0))]
        /\ start = [q \in Queues |-> Tag(ks[q], 0)]
        /\ nenq = [q \in Queues |-> Len(ks[q])]
    /\ qs \in QueueLists
    /\ cur = qs[1]
    /\ pc = "ra_first"
    /\ op = "runall"
    /\ idx = 1
    /\ margs = <<>>
    /\ passlen = [q \in Queues |-> 0]
    /\ mat = NoMatrix
    /\ devmem = [a \in DevAddrs |-> Junk(1)]
    /\ ret = NoCall
    /\ view = NoView

RunAllNext ==
    \/ FirstNowait
    \/ FirstNext
    \/ AnyQueues
    \/ \E j \in 1..Cardinality(Queues) : PassExecNext(j)
    \/ PassNowait
    \/ PassNext
    \/ PassEnd
    \/ FinalWait

\* The controlling thread never stops inside runall while it has a step to
\* take.
RunAllSpec == RunAllInit /\ [][RunAllNext]_vars /\ WF_vars(RunAllNext)

\* ------------------------------------------------- the buffer, as a program
\* A buffer is constructed, placed by the allocator, and then read, written
\* and passed to kernels, in any order; an exception goes to the caller, who
\* may go on.  Device memory starts with no value in it.
MatInit ==
    /\ QInit
    /\ mat = NoMatrix
    /\ devmem = [a \in DevAddrs |-> Junk(1)]
    /\ ret = NoCall
    /\ view = NoView

\* CUDAMatrixBase(backend, dtype, ioshape, initval, extent, tags)
Construct(alignb, dtype, ioshape, initval, tags) ==
    /\ ~mat.made
    /\ mat' = CUDAMatrixBase(alignb, dtype, ioshape, initval, tags)
    /\ ret' = Outcome("init", initval, "none", NoneAry, 0, 0, 0)
    /\ UNCHANGED <<devmem, view>>
    /\ UNCHANGED qvars

\* The allocator places the buffer, once, inside its allocation:
\* mat.onalloc(basedata, offset)
OnAlloc(basedata, offset) ==
    /\ mat.made
    /\ "data" \notin mat.attrs
    /\ offset + mat.nbytes <= MemBytes
    /\ LET out == onalloc(mat, devmem, basedata, offset)
       IN  /\ mat' = out.mat
           /\ devmem' = out.mem
           /\ ret' = Outcome("onalloc", mat.initval, out.exc, NoneAry, 0,
                             basedata, offset)
    /\ UNCHANGED view
    /\ UNCHANGED qvars

\* mat.get()
Get ==
    /\ mat.made
    /\ LET out == get(mat, devmem)
       IN  ret' = Outcome("get", NoneAry, out.exc, out.val, 0, 0, 0)
    /\ UNCHANGED <<mat, devmem, view>>
    /\ UNCHANGED qvars

\* mat.set(ary)
Set(ary) ==
    /\ mat.made
    /\ LET out == set(mat, devmem, ary)
       IN  /\ devmem' = out.mem
           /\ ret' = Outcome("set", ary, out.exc, NoneAry, 0, 0, 0)
    /\ UNCHANGED <<mat, view>>
    /\ UNCHANGED qvars

\* The buffer is passed to a kernel: mat._as_parameter_ or long(mat)
AsParameter ==
    /\ mat.made
    /\ LET out == as_parameter(mat)
       IN  ret' = Outcome("as_parameter", NoneAry, out.exc, NoneAry, out.addr,
                          0, 0)
    /\ UNCHANGED <<mat, devmem, view>>
    /\ UNCHANGED qvars

\* The offsets the allocator places a buffer at: multiples of the alignment.
Offsets(alignb) == {0, alignb}

MatNext ==
    \/ ~mat.made /\ \E alignb \in AlignBs, dtype \in Dtypes, ioshape \in IoShapes,
          tags \in {{}, {"align"}} :
          \E initval \in InitvalsFor(ioshape) :
              Construct(alignb, dtype, ioshape, initval, tags)
    \/ mat.made /\ \E basedata \in BaseAddrs, offset \in Offsets(mat.alignb) :
          OnAlloc(basedata, offset)
    \/ Get
    \/ mat.made /\ \E ary \in ArraysFor(mat.ioshape) : Set(ary)
    \/ AsParameter

MatSpec == MatInit /\ [][MatNext]_vars

\* Construction alone, of buffers of many widths on backends of many
\* alignments.
LeadDimNext ==
    ~mat.made /\ \E alignb \in WideAlignBs, dtype \in Dtypes, ioshape \in WideShapes,
       tags \in {{}, {"align"}} :
       Construct(alignb, dtype, ioshape, NoneAry, tags)

LeadDimSpec == MatInit /\ [][LeadDimNext]_vars

\* --------------------------------------------------- the view, as a program
ViewInit ==
    /\ QInit
    /\ mat = NoMatrix
    /\ devmem = [a \in DevAddrs |-> Junk(1)]
    /\ ret = NoCall
    /\ view = NoView

\* CUDAView.__init__ is called over the buffers ms with the elements els: up to
\* the loop, offmap = np.array(c, dtype=np.int32)
ViewCall(ms, els) ==
    /\ view.pc = "none"
    /\ LET matmap == [i \in 1..Len(els) |-> els[i][1]]
           c == [i \in 1..Len(els) |-> els[i][3]]
       IN  view' = [pc |-> "loop", mats |-> ms, matmap |-> matmap,
                    r |-> [i \in 1..Len(els) |-> els[i][2]], c |-> c,
                    stridemap |-> [i \in 1..Len(els) |-> ms[els[i][1]].leaddim],
                    todo |-> mats_of(matmap), offmap |-> c,
                    mapping |-> <<>>, strides |-> <<>>]
    /\ UNCHANGED <<mat, devmem, ret>>
    /\ UNCHANGED qvars

\* CUDAView.__init__: one iteration of `for m in self._mats`
ViewLoop ==
    /\ view.pc = "loop"
    /\ view.todo # <<>>
    /\ LET id == Head(view.todo)
       IN  view' = [view EXCEPT
                      !.offmap = offmap_add(@, view.matmap, view.r,
                                            view.mats[id], id),
                      !.todo = Tail(@)]
    /\ UNCHANGED <<mat, devmem, ret>>
    /\ UNCHANGED qvars

\* CUDAView.__init__: the loop is over; the mapping and strides buffers are
\* constructed with offmap and stridemap as their initial values
ViewDone ==
    /\ view.pc = "loop"
    /\ view.todo = <<>>
    /\ view' = [view EXCEPT !.pc = "done", !.mapping = view.offmap,
                            !.strides = view.stridemap]
    /\ UNCHANGED <<mat, devmem, ret>>
    /\ UNCHANGED qvars

ViewNext ==
    \/ view.pc = "none" /\ \E ms \in ViewMats :
          \E els \in UNION {[1..n -> Cells(ms)] : n \in 1..MaxVlen} :
              ViewCall(ms, els)
    \/ ViewLoop
    \/ ViewDone

ViewSpec == ViewInit /\ [][ViewNext]_vars

\* ----------------------------------------------------- reading the logs
IsExec(e) == e.t = "exec"

IsWait(e) == e.t = "wait"

\* The items a log shows as executed, in the order of their execution.
ExecItems(l) ==
    LET ex == SelectSeq(l, IsExec)
    IN  [i \in 1..Len(ex) |-> Item(ex[i].kind, ex[i].id)]

\* The items a log shows as taken from the queue: executed, or refused.
TakenItems(l) ==
    LET ex == SelectSeq(l, LAMBDA e : e.t \in {"exec", "raise"})
    IN  [i \in 1..Len(ex) |-> Item(ex[i].kind, ex[i].id)]

\* The number of waits a log shows.
NWaits(l) == Len(SelectSeq(l, IsWait))

\* The kinds of a sequence of items.
KindsOf(s) == [i \in 1..Len(s) |-> s[i].kind]

\* Positions i < j of a log hold two items executed one after the other.
Consecutive(l, i, j) ==
    /\ i < j
    /\ IsExec(l[i])
    /\ IsExec(l[j])
    /\ \A k \in (i + 1)..(j - 1) : ~IsExec(l[k])

WaitBetween(l, i, j) == \E k \in (i + 1)..(j - 1) : IsWait(l[k])

\* Nothing is outstanding on queue state s and nothing is pending.
Quiescent(s) ==
    /\ s.items = <<>>
    /\ s.last = None
    /\ s.mpireqs = <<>>
    /\ s.active = {}
    /\ s.stream_comp = {}
    /\ s.stream_copy = {}

\* run() has returned: to its caller, or into the second statement of %.
RunReturned == (pc = "idle" /\ op \in {"run", "mod"}) \/ pc = "mod"

\* ------------------------------------------------------------------ C1
\* C1 as stated: between two items a queue executes one after the other there
\* is a wait if and only if their kinds differ (never between two of a kind).
C1_WaitIffKindsDiffer ==
    \A q \in Queues :
        LET l == queue[q].log
        IN  \A i, j \in 1..Len(l) :
                Consecutive(l, i, j) =>
                    (WaitBetween(l, i, j) <=> l[i].kind # l[j].kind)

\* A step takes the item at the front of queue q.
Takes(q) == Len(queue'[q].items) < Len(queue[q].items)

\* The step performs a wait on queue q.
Waits(q) == NWaits(queue'[q].log) > NWaits(queue[q].log)

\* The item at the front of q triggers a wait exactly if _last is defined and
\* of another kind.
C1_ItemRule ==
    \A q \in Queues :
        Takes(q) =>
            (Waits(q) <=> /\ queue[q].last # None
                          /\ queue[q].last.kind # Head(queue[q].items).kind)

\* C1, amended: an item triggers a wait exactly if _last is defined and of
\* another kind than the item, and within one call of run or runall there is
\* a wait between two items executed one after the other exactly if their
\* kinds differ.
C1_SequencePoint ==
    /\ [][C1_ItemRule]_vars
    /\ [](op \in {"run", "runall"} => C1_WaitIffKindsDiffer)

\* A run has executed two items of a kind back to back and then one of the
\* other kind.
C1_Witness ==
    /\ op \in {"run", "runall"}
    /\ \E q \in Queues :
        LET l == queue[q].log
        IN  /\ Len(l) >= 4
            /\ IsExec(l[1]) /\ IsExec(l[2]) /\ IsWait(l[3]) /\ IsExec(l[4])
            /\ l[1].kind = l[2].kind
            /\ l[4].kind # l[2].kind

\* ------------------------------------------------------------------ C2
\* The pending items of q are the last ones enqueued, in enqueue order.
InEnqueueOrder(q) ==
    LET its == queue[q].items
    IN  \A i \in 1..Len(its) : its[i].id = nenq[q] - Len(its) + i

\* C2: during run and runall the items taken so far followed by the items
\* still pending are the items that were pending at the call, which are in
\* enqueue order; at the return every one of them has been executed, once.
C2_Fifo ==
    /\ \A q \in Queues : InEnqueueOrder(q)
    /\ op \in {"run", "runall"} =>
         \A q \in Queues :
            /\ TakenItems(queue[q].log) \o queue[q].items = start[q]
            /\ (pc = "idle" /\ q \in Range(qs)) =>
                   ExecItems(queue[q].log) = start[q]

\* A run or runall has returned after executing three items of both kinds
\* from one queue.
C2_Witness ==
    /\ pc = "idle"
    /\ op \in {"run", "runall"}
    /\ \E q \in Range(qs) :
        /\ Len(start[q]) >= 3
        /\ ExecItems(queue[q].log) = start[q]
        /\ {"C", "M"} \subseteq Range(KindsOf(start[q]))

\* ------------------------------------------------------------------ C3
\* Every item a log shows as executed is followed by a wait for its kind.
AllWaitedFor(l) ==
    \A i \in 1..Len(l) :
        IsExec(l[i]) => \E k \in (i + 1)..Len(l) : IsWait(l[k]) /\ l[k].kind = l[i].kind

\* C3: when run returns nothing is pending, _last is None, no request is
\* held or active, no work is left on either stream, and every item executed
\* has been waited for.
C3_RunQuiescent ==
    RunReturned => Quiescent(queue[cur]) /\ AllWaitedFor(queue[cur].log)

\* run has returned after executing items of both kinds.
C3_Witness ==
    /\ RunReturned
    /\ {"C", "M"} \subseteq Range(KindsOf(ExecItems(queue[cur].log)))
\* ------------------------------------------------------------------ C4
\* The entries of a log without the identities of the items.
Shape(l) == [i \in 1..Len(l) |-> <<l[i].t, l[i].kind>>]

\* run was called on a queue holding items of kinds C, C, M, M, C.
C4_Case == op = "run" /\ KindsOf(start[cur]) = <<"C", "C", "M", "M", "C">>

\* C4 as stated: a queue executing C, C, M, M, C performs exactly 2 waits and
\* executes the items in enqueue order.
C4_TwoWaits ==
    (C4_Case /\ pc = "idle") =>
        /\ NWaits(queue[cur].log) = 2
        /\ ExecItems(queue[cur].log) = start[cur]

\* C4, amended: a run of C, C, M, M, C performs exactly 2 waits between the
\* items, one before the first M and one before the final C, and then the
\* final wait of run, 3 waits in all; the items execute in enqueue order.
C4_TwoWaitsThenFinal ==
    C4_Case =>
        /\ (pc = "run" /\ queue[cur].items = <<>>) =>
              Shape(queue[cur].log) =
                  << <<"exec", "C">>, <<"exec", "C">>, <<"wait", "C">>,
                     <<"exec", "M">>, <<"exec", "M">>, <<"wait", "M">>,
                     <<"exec", "C">> >>
        /\ pc = "idle" =>
              /\ Shape(queue[cur].log) =
                  << <<"exec", "C">>, <<"exec", "C">>, <<"wait", "C">>,
                     <<"exec", "M">>, <<"exec", "M">>, <<"wait", "M">>,
                     <<"exec", "C">>, <<"wait", "C">> >>
              /\ ExecItems(queue[cur].log) = start[cur]

\* A run of C, C, M, M, C has returned.
C4_Witness == C4_Case /\ pc = "idle"

\* ------------------------------------------------------------------ C5
\* run was called on a queue holding at least one item, all of kind k.
AllOfKind(its, k) == its # <<>> /\ \A i \in 1..Len(its) : its[i].kind = k

C5_Case == op = "run" /\ \E k \in {"C", "M"} : AllOfKind(start[cur], k)

\* C5: a run of a non-empty queue of items of one kind performs no wait while
\* it executes the items and exactly one, the final one, before it returns.
C5_OneWait ==
    C5_Case =>
        /\ pc = "run" => NWaits(queue[cur].log) = 0
        /\ pc = "idle" =>
              LET l == queue[cur].log
              IN  /\ NWaits(l) = 1
                  /\ IsWait(l[Len(l)])
                  /\ Len(l) = Len(start[cur]) + 1

\* A run of C, C, C has returned.
C5_Witness ==
    /\ op = "run"
    /\ pc = "idle"
    /\ KindsOf(start[cur]) = <<"C", "C", "C">>

\* ------------------------------------------------------------------ C6
\* The longest prefix of `its` whose items are all of the kind of the first.
RECURSIVE SameKindPrefix(_)
SameKindPrefix(its) ==
    IF Len(its) <= 1 THEN its
    ELSE IF its[2].kind # its[1].kind THEN <<its[1]>>
    ELSE <<its[1]>> \o SameKindPrefix(Tail(its))

IsPrefix(a, b) == Len(a) <= Len(b) /\ SubSeq(b, 1, Len(a)) = a

\* runall has performed a wait on one of its queues.
SomeWait == \E q \in Range(qs) : NWaits(queue[q].log) > 0

\* C6: once runall has performed a wait on any queue, every queue has
\* executed the longest same-kind prefix of what it held at the call.
C6_IssueBeforeBlock ==
    (op = "runall" /\ SomeWait) =>
        \A q \in Range(qs) :
            IsPrefix(SameKindPrefix(start[q]), ExecItems(queue[q].log))

\* runall on a queue of two compute items and a queue of two MPI items has
\* just performed its first wait.
C6_Witness ==
    /\ op = "runall"
    /\ Len(qs) = 2
    /\ KindsOf(start[qs[1]]) = <<"C", "C">>
    /\ KindsOf(start[qs[2]]) = <<"M", "M">>
    /\ NWaits(queue[qs[1]].log) = 1
    /\ NWaits(queue[qs[2]].log) = 0

\* ------------------------------------------------------------------ C7
\* C7: the operations are called on quiescent queues, and when runall
\* returns each of its queues is as run alone leaves it from what it held at
\* the call: the same items executed in the same order with the same waits
\* in the same places, and the same final state.  (The run of the model and
\* run as a function agree, too.)
C7_RunAllAsRun ==
    /\ pc = "idle" => \A q \in Queues : queue[q].last = None
                                        /\ queue[q].mpireqs = <<>>
                                        /\ queue[q].active = {}
                                        /\ queue[q].stream_comp = {}
                                        /\ queue[q].stream_copy = {}
    /\ (pc = "idle" /\ op = "runall") =>
          \A q \in Range(qs) : /\ queue[q] = run(AtCall(start[q]))
                               /\ Quiescent(queue[q])
    /\ (pc = "idle" /\ op = "run") => queue[cur] = run(AtCall(start[cur]))

\* runall has returned from two queues that each held items of both kinds.
C7_Witness ==
    /\ pc = "idle"
    /\ op = "runall"
    /\ Len(qs) = 2
    /\ \A q \in Range(qs) : {"C", "M"} \subseteq Range(KindsOf(start[q]))
\* ------------------------------------------------------------------ C8
\* Every item of `its` is of a recognised kind.
Recognised(its) == \A i \in 1..Len(its) : its[i].kind \in {"C", "M"}

InRunAll == op = "runall" /\ pc \notin {"idle", "raised"}

\* A pass of the main loop of runall has taken an item from every queue that
\* was non-empty when the pass began.
C8_PassProgress ==
    pc = "ra_any" =>
        \A q \in Range(qs) :
            passlen[q] > 0 => Len(queue[q].items) < passlen[q]

\* C8: runall terminates; with items of recognised kinds it returns, and
\* when it returns every queue is empty and quiescent; each pass of its main
\* loop removes at least one item from every non-empty queue.
C8_Terminates ==
    /\ [](C8_PassProgress)
    /\ []((op = "runall" /\ \A q \in Range(qs) : Recognised(start[q]))
            => pc # "raised")
    /\ []((op = "runall" /\ pc = "idle")
            => \A q \in Range(qs) : Quiescent(queue[q]))
    /\ (InRunAll ~> (pc \in {"idle", "raised"}))

\* A pass of the main loop over two non-empty queues has ended.
C8_Witness ==
    /\ op = "runall"
    /\ pc = "ra_any"
    /\ Len(qs) = 2
    /\ \A q \in Range(qs) : passlen[q] > 0

\* ------------------------------------------------------------------ C9
\* No log shows an item of unrecognised kind as executed, no such item is
\* _last, and a queue that raised shows the refusal as its last entry, with
\* nothing of the item on its streams or among its requests.
C9_NoEffect ==
    /\ \A q \in Queues :
        LET s == queue[q]
        IN  /\ \A i \in 1..Len(s.log) :
                  IsExec(s.log[i]) => s.log[i].kind \in {"C", "M"}
            /\ s.last.kind \in {"C", "M", "none"}
            /\ s.exc =>
                  LET e == s.log[Len(s.log)]
                  IN  /\ pc = "raised"
                      /\ e.t = "raise"
                      /\ e.kind \notin {"C", "M"}
                      /\ s.last # Item(e.kind, e.id)
                      /\ e.id \notin s.stream_comp \cup s.stream_copy
                                        \cup s.active \cup Range(s.mpireqs)
                      /\ \A i \in 1..Len(s.log) : IsExec(s.log[i]) => s.log[i].id # e.id
    /\ pc = "raised" => \E q \in Queues : queue[q].exc

\* A step that takes an item of unrecognised kind raises, issues nothing and
\* does not record the item.
C9_Raises ==
    \A q \in Queues :
        (Takes(q) /\ Head(queue[q].items).kind \notin {"C", "M"}) =>
            /\ pc' = "raised"
            /\ queue'[q].exc
            /\ queue'[q].last # Head(queue[q].items)
            /\ queue'[q].stream_comp \subseteq queue[q].stream_comp
            /\ queue'[q].stream_copy \subseteq queue[q].stream_copy
            /\ queue'[q].active \subseteq queue[q].active
            /\ Range(queue'[q].mpireqs) \subseteq Range(queue[q].mpireqs)
            /\ ExecItems(queue'[q].log) = ExecItems(queue[q].log)

\* C9: an item of unrecognised kind raises ValueError before any effect of
\* its execution: it is never run and never recorded as _last.
C9_ErrorBeforeEffect == [](C9_NoEffect) /\ [][C9_Raises]_vars

\* A queue has executed an item, waited at the sequence point and refused the
\* item of unrecognised kind that followed.
C9_Witness ==
    /\ pc = "raised"
    /\ \E q \in Queues :
        LET l == queue[q].log
        IN  /\ queue[q].exc
            /\ Len(l) >= 3
            /\ IsExec(l[Len(l) - 2])
            /\ IsWait(l[Len(l) - 1])

\* ----------------------------------------------------------------- C10
\* The kinds handed to the << that the step performs (directly, or in %).
Handed == IF op' = "lshift" THEN margs' ELSE margs

\* A step that enqueues into q appends the items handed to it, in order, and
\* changes nothing else of any queue; no log gains an entry.
C10_Appends ==
    \A q \in Queues :
        nenq'[q] # nenq[q] =>
            /\ nenq'[q] = nenq[q] + Len(Handed)
            /\ queue'[q].items = queue[q].items \o Tag(Handed, nenq[q])
            /\ \A r \in Queues :
                /\ r # q => queue'[r].items = queue[r].items
                /\ queue'[r].last = queue[r].last
                /\ queue'[r].mpireqs = queue[r].mpireqs
                /\ queue'[r].active = queue[r].active
                /\ queue'[r].stream_comp = queue[r].stream_comp
                /\ queue'[r].stream_copy = queue[r].stream_copy
                /\ queue'[r].exc = queue[r].exc
                /\ queue'[r].log \in {queue[r].log, <<>>}

\* C10: enqueue only appends the items, in order, to the pending list.
C10_EnqueueFrame == [][C10_Appends]_vars

\* Two items of different kinds have been enqueued behind a pending item.
C10_Witness ==
    /\ pc = "idle"
    /\ op = "lshift"
    /\ Len(margs) = 2
    /\ margs[1] # margs[2]
    /\ Len(queue[cur].items) >= 3
    /\ KindsOf(SubSeq(queue[cur].items, Len(queue[cur].items) - 1,
                      Len(queue[cur].items))) = margs

\* ----------------------------------------------------------------- C11
\* C11: the leading dimension computed at construction, from ncol >= 1 and the
\* alignment modulus m >= 1 (m = 1 without the align tag), is at least ncol, is
\* a multiple of m and is the smallest such value (leaddim - ncol < m); 13
\* columns with m = 4 give 16, and so do 16 columns.
C11_LeadDim ==
    mat.made =>
        LET m == ldmod(mat.alignb, mat.itemsize, mat.tags)
        IN  /\ mat.ncol >= 1
            /\ m >= 1
            /\ "align" \notin mat.tags => m = 1
            /\ mat.leaddim >= mat.ncol
            /\ mat.leaddim % m = 0
            /\ mat.leaddim - mat.ncol < m
            /\ m = 4 /\ mat.ncol \in {13, 16} => mat.leaddim = 16

\* A buffer of 13 columns has been constructed with an alignment of 4 elements.
C11_Witness ==
    /\ mat.made
    /\ ret.call = "init"
    /\ "align" \in mat.tags
    /\ ldmod(mat.alignb, mat.itemsize, mat.tags) = 4
    /\ mat.ncol = 13
    /\ mat.leaddim = 16

\* ----------------------------------------------------------------- C12
\* Every element of the array is a value the element type can hold.
AllRepresentable(dtype, ary) ==
    \A e \in 1..Len(ary.flat) : Representable(dtype, ary.flat[e])

\* A get that follows a successful set of an array of representable values
\* returns an array equal to it.
C12_GetAfterSet ==
    /\ ret.call = "set"
    /\ ret.exc = "none"
    /\ ret'.call = "get"
    /\ AllRepresentable(mat.dtype, ret.arg)
    => /\ ret'.exc = "none"
       /\ ret'.val = ret.arg

\* C12: on a placed buffer of any logical shape, set(A) followed by get()
\* returns A, for A of that shape with values representable in the element
\* type, whatever the padding of the rows and whatever the padding holds.
C12_RoundTrip == [][C12_GetAfterSet]_vars

\* A get on a buffer of two padded rows and a three-dimensional ioshape has
\* returned the array of even values; no initial value is that array, so a set
\* wrote it, and the padding still holds no value.
C12_Witness ==
    /\ ret.call = "get"
    /\ ret.exc = "none"
    /\ ret.val = Ramp(mat.ioshape, 2)
    /\ Len(mat.ioshape) = 3
    /\ mat.nrow = 2
    /\ mat.leaddim > mat.ncol
    /\ devmem[mat.data + mat.ncol * mat.itemsize] = Junk(1)

\* ----------------------------------------------------------------- C13
\* The addresses of the first ncol elements of each of the nrow rows of a
\* placed buffer, the rows at data + row*pitch; none for an unplaced buffer.
RowCells(m) ==
    IF "data" \in m.attrs
    THEN {m.data + r * pitch(m) + b :
            r \in 0..(m.nrow - 1), b \in 0..(m.ncol * m.itemsize - 1)}
    ELSE {}

\* Device memory with everything but the cells `keep` overwritten.
Masked(mem, keep) ==
    [a \in DOMAIN mem |-> IF a \in keep THEN mem[a] ELSE Junk(2)]

\* No step changes a byte outside the rows of the buffer: not the padding
\* at columns ncol..leaddim-1, not the storage before or after the buffer.
C13_WritesRowsOnly ==
    \A a \in DevAddrs \ RowCells(mat') : devmem'[a] = devmem[a]

\* What a get returns does not depend on any byte outside the rows: the bytes
\* it copies to the host, and the array it returns, are the same with every
\* other byte of device memory overwritten.
C13_ReadsRowsOnly ==
    /\ ret'.call = "get"
    /\ ret'.exc = "none"
    => /\ get_buf(mat, Masked(devmem, RowCells(mat))) = get_buf(mat, devmem)
       /\ ret'.val = get(mat, Masked(devmem, RowCells(mat))).val

\* C13: set writes, and get reads, only the first ncol elements of each of the
\* nrow rows at data + row*pitch: the padding of every row and all storage
\* outside the buffer are left unchanged by set and do not influence get.
C13_RowsOnly == [][C13_WritesRowsOnly /\ C13_ReadsRowsOnly]_vars

\* A set has written a buffer of two padded rows, placed behind the start of
\* the allocation: its rows hold values, every other byte still holds none.
C13_Witness ==
    /\ ret.call = "set"
    /\ ret.exc = "none"
    /\ mat.nrow = 2
    /\ mat.leaddim > mat.ncol
    /\ mat.data > mat.basedata
    /\ \A a \in RowCells(mat) : devmem[a] # Junk(1)
    /\ \A a \in DevAddrs \ RowCells(mat) : devmem[a] = Junk(1)

\* ----------------------------------------------------------------- C14
\* A set with an array whose shape is not the ioshape raises ValueError and
\* leaves device memory and the buffer as they were.
C14_Refused ==
    /\ ret'.call = "set"
    /\ ret'.arg.shape # mat.ioshape
    => /\ ret'.exc = "ValueError"
       /\ devmem' = devmem
       /\ mat' = mat

\* C14: set(value) with a value whose shape differs from the ioshape raises
\* ValueError and writes nothing: device memory and the metadata of the
\* buffer are the same before and after the call.
C14_ShapeMismatch == [][C14_Refused]_vars

\* A placed buffer that holds values has refused an array of as many elements
\* in another shape.
C14_Witness ==
    /\ ret.call = "set"
    /\ ret.exc = "ValueError"
    /\ ret.arg.shape # mat.ioshape
    /\ Size(ret.arg.shape) = Size(mat.ioshape)
    /\ "data" \in mat.attrs
    /\ \A a \in RowCells(mat) : devmem[a] # Junk(1)

\* ----------------------------------------------------------------- C15
\* The offset of element i of the view, from the buffer it references.
OffsetOf(i) ==
    LET m == view.mats[view.matmap[i]]
    IN  m.offset + view.r[i] * m.leaddim + view.c[i]

\* C15: every element i of the offset array a view compiles equals
\* matrix.offset + row[i]*matrix.leaddim + col[i] for the one buffer the
\* element references; while the array is compiled an element holds its column
\* until the turn of its own buffer, and no other buffer contributes to it.
C15_ViewOffsets ==
    /\ view.pc = "loop" =>
          \A i \in 1..Len(view.offmap) :
              view.offmap[i] = IF view.matmap[i] \in Range(view.todo)
                               THEN view.c[i] ELSE OffsetOf(i)
    /\ view.pc = "done" =>
          /\ Len(view.mapping) = Len(view.matmap)
          /\ \A i \in 1..Len(view.mapping) : view.mapping[i] = OffsetOf(i)

\* A view of three elements over two buffers of different leading dimensions
\* has been compiled; two of its elements lie in the second row of different
\* buffers.
C15_Witness ==
    /\ view.pc = "done"
    /\ Len(view.mapping) = 3
    /\ view.mats[1].leaddim # view.mats[2].leaddim
    /\ view.mats[1].offset > 0
    /\ \E i, j \in 1..3 :
        /\ view.matmap[i] = 1 /\ view.r[i] = 1
        /\ view.matmap[j] = 2 /\ view.r[j] = 1
        /\ view.mapping[i] = view.mats[1].offset + view.mats[1].leaddim + view.c[i]
        /\ view.mapping[j] = view.mats[2].offset + view.mats[2].leaddim + view.c[j]

\* ----------------------------------------------------------------- C16
\* The buffer has been constructed and not placed.
Unplaced(m) == m.made /\ "data" \notin m.attrs

\* data and offset are defined together, and never before basedata.
C16_Attrs ==
    /\ "data" \in mat.attrs <=> "offset" \in mat.attrs
    /\ "data" \in mat.attrs <=> "basedata" \in mat.attrs
    /\ "data" \in mat.attrs => mat.made

\* Only onalloc places a buffer; a placed buffer stays where it is.
C16_PlacedByOnalloc ==
    /\ Unplaced(mat') => ~("data" \in mat.attrs)
    /\ "data" \notin mat.attrs /\ "data" \in mat'.attrs => ret'.call = "onalloc"
    /\ "data" \in mat.attrs =>
          /\ "data" \in mat'.attrs
          /\ mat'.data = mat.data
          /\ mat'.offset = mat.offset

\* On an unplaced buffer get, set and the use as a kernel argument raise, and
\* leave device memory and the buffer as they were; nothing read is returned.
C16_UnplacedFails ==
    /\ Unplaced(mat)
    /\ ret'.call \in {"get", "set", "as_parameter"}
    => /\ ret'.exc # "none"
       /\ ret'.val = NoneAry
       /\ devmem' = devmem
       /\ mat' = mat

\* onalloc sets data to the base address plus the byte offset, and offset to
\* the byte offset in elements.
C16_Placement ==
    ret'.call = "onalloc" =>
        /\ Unplaced(mat)
        /\ "data" \in mat'.attrs
        /\ mat'.data = ret'.base + ret'.boff
        /\ mat'.offset * mat'.itemsize = ret'.boff

\* On a placed buffer get and the use as a kernel argument succeed, the
\* argument being data, and so does set with an array of the ioshape.
C16_PlacedSucceeds ==
    "data" \in mat.attrs =>
        /\ ret'.call \in {"get", "as_parameter"} => ret'.exc = "none"
        /\ ret'.call = "as_parameter" => ret'.addr = mat.data
        /\ ret'.call = "set" /\ ret'.arg.shape = mat.ioshape => ret'.exc = "none"

\* C16: a buffer is unplaced from its construction until onalloc: data and
\* offset are undefined, and get, set and the use as a kernel argument fail
\* without reading or writing device memory; after onalloc data is the base
\* address plus the byte offset, offset is the byte offset divided by the
\* itemsize, and the operations succeed.
C16_Placing ==
    /\ [](C16_Attrs)
    /\ [][/\ C16_PlacedByOnalloc
          /\ C16_UnplacedFails
          /\ C16_Placement
          /\ C16_PlacedSucceeds]_vars

\* A buffer with an initial value pending has refused a set of an array of its
\* ioshape, not being placed; device memory holds no value.
C16_Witness ==
    /\ Unplaced(mat)
    /\ mat.initval # NoneAry
    /\ ret.call = "set"
    /\ ret.arg.shape = mat.ioshape
    /\ ret.exc = "AttributeError"
    /\ \A a \in DevAddrs : devmem[a] = Junk(1)

\* ----------------------------------------------------------------- C17
\* Construction writes nothing to device memory.
C17_NoWriteAtConstruction == ret'.call = "init" => devmem' = devmem

\* Placement of a buffer constructed with the initial value V writes V, once,
\* and discards it: the buffer no longer holds it.
C17_WrittenAtPlacement ==
    /\ ret'.call = "onalloc"
    /\ ret'.arg # NoneAry
    => /\ ret'.exc = "none"
       /\ devmem' = set(mat', devmem, ret'.arg).mem
       /\ "_initval" \notin mat'.attrs
       /\ mat'.initval = NoneAry

\* A get immediately after the placement returns V.
C17_GetReturnsInitval ==
    /\ ret.call = "onalloc"
    /\ ret.arg # NoneAry
    /\ ret'.call = "get"
    => /\ ret'.exc = "none"
       /\ ret'.val = ret.arg

\* Placement of a buffer constructed without an initial value writes nothing.
C17_NoInitval ==
    /\ ret'.call = "onalloc"
    /\ ret'.arg = NoneAry
    => /\ ret'.exc = "none"
       /\ devmem' = devmem
       /\ "_initval" \notin mat'.attrs

\* C17: a buffer constructed with an initial value V does not write V at its
\* construction; V is written exactly once, at placement, so that a get
\* immediately after placement returns V, and the initial value retained is
\* then discarded; without an initial value placement writes nothing.
C17_InitialValue ==
    [][/\ C17_NoWriteAtConstruction
       /\ C17_WrittenAtPlacement
       /\ C17_GetReturnsInitval
       /\ C17_NoInitval]_vars

\* A buffer constructed with an initial value of another shape has been
\* placed: onalloc raised ValueError, device memory holds no value and the
\* buffer still holds the initial value.
C17_Witness ==
    /\ ret.call = "onalloc"
    /\ ret.exc = "ValueError"
    /\ "data" \in mat.attrs
    /\ "_initval" \in mat.attrs
    /\ mat.initval = ret.arg
    /\ mat.initval.shape # mat.ioshape
    /\ \A a \in DevAddrs : devmem[a] = Junk(1)

\* ----------------------------------------------------------------- C18
\* Queue state s holds requests that have not been waited for.
RequestsOut(s) == s.mpireqs # <<>> \/ s.active # {}

\* Queue state s has work on a stream that has not been synchronised.
StreamWork(s) == s.stream_comp # {} \/ s.stream_copy # {}

\* Outstanding work is of the kind of _last: requests only after an MPI item,
\* stream work only after a compute item, nothing when _last is None; so
\* never work of both kinds.
C18_KindOfLast ==
    \A q \in Queues :
        LET s == queue[q]
        IN  /\ RequestsOut(s) => s.last.kind = "M"
            /\ StreamWork(s) => s.last.kind = "C"
            /\ s.last = None => ~RequestsOut(s) /\ ~StreamWork(s)
            /\ ~(RequestsOut(s) /\ StreamWork(s))

\* The kinds of the items that a step executes on queue q.
Issued(q) ==
    {queue'[q].log[k].kind :
        k \in {i \in (Len(queue[q].log) + 1)..Len(queue'[q].log) :
                  IsExec(queue'[q].log[i])}}

\* A compute item is issued with no request outstanding, an MPI item with no
\* stream work outstanding; and the requests are cleared only by a wait that
\* follows an MPI item.
C18_IssueAndClear ==
    \A q \in Queues :
        /\ "C" \in Issued(q) => ~RequestsOut(queue'[q])
        /\ "M" \in Issued(q) => ~StreamWork(queue'[q])
        /\ queue[q].mpireqs # <<>> /\ queue'[q].mpireqs = <<>> =>
              /\ queue[q].last.kind = "M"
              /\ \E k \in (Len(queue[q].log) + 1)..Len(queue'[q].log) :
                    IsWait(queue'[q].log[k]) /\ queue'[q].log[k].kind = "M"

\* C18: in every reachable state of a queue the outstanding work is of one
\* kind at most, the kind of _last: the request list is non-empty only if
\* _last is an MPI item, there is unsynchronised stream work only if _last is
\* a compute item, and nothing is outstanding when _last is None; no item is
\* issued while work of the other kind is outstanding, and only a wait after
\* an MPI item clears the request list.
C18_OneKindOutstanding == [](C18_KindOfLast) /\ [][C18_IssueAndClear]_vars

\* One queue holds two requests after it has waited for its compute items,
\* while another has compute work on its streams.
C18_Witness ==
    \E q, r \in Queues :
        /\ q # r
        /\ Len(queue[q].mpireqs) = 2
        /\ queue[q].last.kind = "M"
        /\ \E k \in 1..Len(queue[q].log) :
              IsWait(queue[q].log[k]) /\ queue[q].log[k].kind = "C"
        /\ queue[r].last.kind = "C"
        /\ queue[r].stream_comp # {}

\* ----------------------------------------------------------------- C19
\* Queue state s cannot go on without a wait: nothing is pending, or the item
\* at the front is of another kind than _last, which is defined.
Blocked(s) ==
    \/ s.items = <<>>
    \/ s.last # None /\ Head(s.items).kind # s.last.kind

\* A step of runall that performs a wait starts with every queue blocked.
C19_WaitsWhenBlocked ==
    /\ InRunAll
    /\ \E q \in Range(qs) : Waits(q)
    => \A r \in Range(qs) : Blocked(queue[r])

\* C19: runall blocks only when no queue can go on without blocking: at any
\* wait inside runall every queue of the set is empty or has at its front an
\* item at a sequence point; no item that could be issued without a wait is
\* left pending behind a wait on another queue.
C19_BlocksLast == [][C19_WaitsWhenBlocked]_vars

\* In runall over two queues one queue has waited while the other, which has
\* issued items and not waited, holds an item of another kind than its _last.
C19_Witness ==
    /\ InRunAll
    /\ \E q, r \in Range(qs) :
        /\ q # r
        /\ NWaits(queue[q].log) >= 1
        /\ NWaits(queue[r].log) = 0
        /\ ExecItems(queue[r].log) # <<>>
        /\ queue[r].items # <<>>
        /\ Blocked(queue[r])

\* ----------------------------------------------------------------- C20
\* The identities of the items that were pending when the operation was called.
OldIds == {start[cur][i].id : i \in 1..Len(start[cur])}

\* Entry e of a log is the execution of an item handed to the operation.
IsNewExec(e) == IsExec(e) /\ e.id \notin OldIds

\* When position j of log l executes a new item, every item pending at the
\* call has been executed before, and each has been waited for since.
OldDoneBefore(l, j) ==
    /\ \A i \in 1..Len(start[cur]) :
          \E k \in 1..(j - 1) : IsExec(l[k]) /\ l[k].id = start[cur][i].id
    /\ \A k \in 1..(j - 1) :
          IsExec(l[k]) /\ l[k].id \in OldIds =>
              \E w \in (k + 1)..(j - 1) : IsWait(l[w]) /\ l[w].kind = l[k].kind

\* C20: queue % items runs every item pending before to quiescence, then
\* enqueues the new items, then runs them to quiescence: no new item is issued
\* before every earlier item has been executed and waited for (a wait lies
\* between old and new items also of one kind), and on return the queue is
\* empty, _last is None and no request is outstanding.
C20_ModRunsOldThenNew ==
    op = "mod" =>
        LET l == queue[cur].log
            ex == ExecItems(l)
        IN  /\ \A j \in 1..Len(l) : IsNewExec(l[j]) => OldDoneBefore(l, j)
            /\ margs # <<>> =>
                  /\ \A j \in 1..Len(l) : ~IsNewExec(l[j])
                  /\ \A i \in 1..Len(queue[cur].items) :
                        queue[cur].items[i].id \in OldIds
            /\ pc = "mod" =>
                  /\ Quiescent(queue[cur])
                  /\ ex = start[cur]
                  /\ AllWaitedFor(l)
            /\ pc = "idle" =>
                  /\ Quiescent(queue[cur])
                  /\ AllWaitedFor(l)
                  /\ IsPrefix(start[cur], ex)
                  /\ Len(ex) > Len(start[cur])
                  /\ \A i \in (Len(start[cur]) + 1)..Len(ex) :
                        ex[i].id = nenq[cur] - (Len(ex) - i)

\* queue % [C] has returned on a queue that held a compute item: the old
\* item, a wait, the new item, a wait.
C20_Witness ==
    /\ op = "mod"
    /\ pc = "idle"
    /\ Len(start[cur]) = 1
    /\ Shape(queue[cur].log) =
          << <<"exec", "C">>, <<"wait", "C">>, <<"exec", "C">>, <<"wait", "C">> >>
    /\ IsNewExec(queue[cur].log[3])

====
